---- MODULE Spec2Model ----
(***************************************************************************)
(* Model of salary_app_v14.py: a Streamlit script that authenticates a     *)
(* user against a credential table, fetches the USD/JPY rate, computes the *)
(* reward / withholding split, appends a row to a Google sheet when the    *)
(* Save button is pressed and, once the session's saved flag is set,       *)
(* reloads the user's rows and renders the history.                        *)
(*                                                                         *)
(* Every browser session runs the script top to bottom once per widget     *)
(* event.  The two remote sheet calls (append_row, get_all_records) are    *)
(* the points where the runs of different sessions interleave, so one run  *)
(* is three steps: the script up to the Save button, save_to_sheet, and    *)
(* load_records with the rendering.                                        *)
(*                                                                         *)
(* Numbers: Python floats are modelled as exact decimal fractions          *)
(* [n |-> numerator, d |-> denominator]; math.ceil is the exact ceiling.   *)
(* Binary rounding of the float products is not modelled.                  *)
(***************************************************************************)
EXTENDS Integers, Sequences, FiniteSets, TLC

\* ---------------------------------------------------------------- bounds
MaxRows == 2
MaxHistory == 3
MaxTime == 1

\* ------------------------------------------------------- program constants
\* reward_rate = 0.6 and tax_rate = 0.1021 (defaults of calculate_rewards)
RewardRateNum == 6
RewardRateDen == 10
TaxRateNum == 1021
TaxRateDen == 10000

Sessions == {"s1", "s2"}

\* st.secrets["credentials"] when it can be read
Credentials == [aya |-> "p1", mio |-> "p2"]

\* what st.secrets["credentials"] is replaced by when it cannot be read: {}
EmptyDict == [k \in {} |-> ""]

\* texts the user types into the USD field, one character per element
UsdTexts == { <<>>, <<"x">>, <<"1", "5">>, <<"-", "2", ".", "5">> }

\* data["rates"]["JPY"] of a successful fetch (JPY per USD, as a fraction)
FetchedRates == { [n |-> 104, d |-> 100], [n |-> 125, d |-> 100] }

\* ------------------------------------------------------------- arithmetic
\* math.ceil of the fraction n/d, d > 0
Ceil(n, d) == -((-n) \div d)

DigitVal ==
    ("0" :> 0) @@ ("1" :> 1) @@ ("2" :> 2) @@ ("3" :> 3) @@ ("4" :> 4) @@
    ("5" :> 5) @@ ("6" :> 6) @@ ("7" :> 7) @@ ("8" :> 8) @@ ("9" :> 9)

RECURSIVE Normalize(_)
\* one float value has one representation: 1.0 and 1 are the same float
Normalize(x) ==
    IF x.n = 0 THEN [n |-> 0, d |-> 1]
    ELSE IF x.d > 1 /\ x.n % 10 = 0 THEN Normalize([n |-> x.n \div 10, d |-> x.d \div 10])
    ELSE x

RECURSIVE ScanDigits(_, _, _, _, _, _)
\* scans text[i..]: digits with at most one "."; ok only if a digit was seen
ScanDigits(text, i, n, d, dot, seen) ==
    IF i > Len(text) THEN [ok |-> seen, n |-> n, d |-> d]
    ELSE IF text[i] \in DOMAIN DigitVal
         THEN ScanDigits(text, i + 1, n * 10 + DigitVal[text[i]],
                         IF dot THEN d * 10 ELSE d, dot, TRUE)
    ELSE IF text[i] = "." /\ ~dot
         THEN ScanDigits(text, i + 1, n, d, TRUE, seen)
    ELSE [ok |-> FALSE, n |-> 0, d |-> 1]

\* float(usd_input): [sign] digits [. digits]; anything else raises ValueError
ParseFloat(text) ==
    LET signed == Len(text) > 0 /\ text[1] \in {"-", "+"}
        body   == ScanDigits(text, IF signed THEN 2 ELSE 1, 0, 1, FALSE, FALSE)
        neg    == signed /\ text[1] = "-"
    IN  IF body.ok
        THEN [ok |-> TRUE,
              val |-> Normalize([n |-> IF neg THEN -body.n ELSE body.n, d |-> body.d])]
        ELSE [ok |-> FALSE, val |-> [n |-> 0, d |-> 1]]

\* lines 248-251: usd = float(usd_input), 0.0 when float() raises
ParseUsd(text) ==
    IF ParseFloat(text).ok THEN ParseFloat(text).val ELSE [n |-> 0, d |-> 1]

\* variant: tax and after_tax taken from the rounded-up before_tax
calculate_rewards_rounded(usd, rate) ==
    LET before_tax == Ceil(usd.n * rate.n * RewardRateNum,
                           usd.d * rate.d * RewardRateDen)
    IN  [before_tax |-> before_tax,
         tax        |-> Ceil(before_tax * TaxRateNum, TaxRateDen),
         after_tax  |-> Ceil(before_tax * (TaxRateDen - TaxRateNum), TaxRateDen)]

\* lines 63-67: the three ceilings are taken of the unrounded products
calculate_rewards(usd, rate) ==
    LET bn == usd.n * rate.n * RewardRateNum
        bd == usd.d * rate.d * RewardRateDen
        tn == bn * TaxRateNum
        td == bd * TaxRateDen
    IN  [before_tax |-> Ceil(bn, bd),
         tax        |-> Ceil(tn, td),
         after_tax  |-> Ceil(bn * TaxRateDen - tn, td)]

RECURSIVE IsDyadic(_, _)
\* n/d (d a power of ten) is exactly representable as a binary float
IsDyadic(n, d) ==
    IF d % 5 = 0 THEN n % 5 = 0 /\ IsDyadic(n \div 5, d \div 5) ELSE TRUE

\* round(rate, 1), in tenths.  round() is correctly rounded on the binary
\* float: an exactly representable tie goes to the even neighbour; a decimal
\* tie that is not representable lies just above or just below the midpoint,
\* so either neighbour can come out.
RoundOutcomes(rate) ==
    LET t10  == rate.n * 10
        lo   == t10 \div rate.d
        rem2 == 2 * (t10 % rate.d)
        down == Normalize([n |-> lo, d |-> 10])
        up   == Normalize([n |-> lo + 1, d |-> 10])
    IN  IF rem2 < rate.d THEN {down}
        ELSE IF rem2 > rate.d THEN {up}
        ELSE IF IsDyadic(rate.n, rate.d) THEN {IF lo % 2 = 0 THEN down ELSE up}
        ELSE {down, up}

\* ------------------------------------------------------------------ state
VARIABLES
    sheet,          \* the rows of the spreadsheet below its header, in order
    now,            \* datetime.now(), in seconds
    session_state,  \* per session: st.session_state
    widgets,        \* per session: the values of the input widgets
    pc,             \* per session: where its current script run stands
    run,            \* per session: locals and output of its latest script run
    appends         \* history: how many append_row calls have returned

vars == <<sheet, now, session_state, widgets, pc, run, appends>>

\* line 61: the rate get_exchange_rate returns when the fetch or the parse raises
Zero == [n |-> 0, d |-> 1]

NoReward == [before_tax |-> 0, tax |-> 0, after_tax |-> 0]

\* the locals and the output of a script run before its first line: pressed,
\* the run was started by the Save button; login, line 236 held; fetched,
\* get_exchange_rate was called and returned rate; calc, calculate_rewards was
\* called and returned reward; appended, append_row returned, with new_row;
\* loaded, load_records was called; read, get_all_records returned the first
\* readLen rows; rendered, display_history and the charts were called
NoRow ==
    [date |-> 0, name |-> "", usd |-> Zero, rate |-> Zero,
     before_tax |-> 0, tax |-> 0, after_tax |-> 0]

NoRun ==
    [pressed |-> FALSE, login |-> FALSE, fetched |-> FALSE, rate |-> Zero,
     usd |-> Zero, reward |-> NoReward, calc |-> FALSE,
     appended |-> FALSE, new_row |-> NoRow, loaded |-> FALSE, read |-> FALSE,
     readLen |-> 0, df |-> <<>>, rendered |-> FALSE, max_salary |-> 0,
     msgs |-> {}]

\* lines 33-34 and the empty widgets of a fresh page
Init ==
    /\ sheet = <<>>
    /\ now = 0
    /\ session_state = [s \in Sessions |-> [saved |-> FALSE]]
    /\ widgets = [s \in Sessions |->
                    [user_id |-> "", user_pass |-> "", usd_input |-> <<>>,
                     button |-> FALSE]]
    /\ pc = [s \in Sessions |-> "idle"]
    /\ run = [s \in Sessions |-> NoRun]
    /\ appends = 0

\* ------------------------------------------------------------ the sheet
\* variant: before_tax and tax passed in each other's place
new_row_misordered(current_date, user_id, usd, stored_rate, reward) ==
    [date |-> current_date, name |-> user_id, usd |-> usd, rate |-> stored_rate,
     before_tax |-> reward.tax, tax |-> reward.before_tax,
     after_tax |-> reward.after_tax]

\* line 82: the row as it is stored, the rate rounded to one decimal
new_row(current_date, user_id, usd, stored_rate, reward) ==
    [date |-> current_date, name |-> user_id, usd |-> usd, rate |-> stored_rate,
     before_tax |-> reward.before_tax, tax |-> reward.tax,
     after_tax |-> reward.after_tax]

\* variant: the flag is left as it was
KeepSaved(state) == state

\* line 276: st.session_state.saved = True, whatever save_to_sheet did
SetSaved(state) == [state EXCEPT !.saved = TRUE]

\* variant: the row is put before the first row
insert_row(sh, row) == <<row>> \o sh

\* variant: the row is written over the last row
update_last_row(sh, row) ==
    IF sh = <<>> THEN <<row>> ELSE [sh EXCEPT ![Len(sh)] = row]

\* line 84: sheet.append_row(new_row) puts the row after the last row
append_row(sh, row) == Append(sh, row)

RECURSIVE SelectRows(_, _)
\* line 103: df[df["源氏名"] == user_id], the sheet's order kept
SelectRows(sh, user_id) ==
    IF sh = <<>> THEN <<>>
    ELSE IF Head(sh).name = user_id
         THEN <<Head(sh)>> \o SelectRows(Tail(sh), user_id)
         ELSE SelectRows(Tail(sh), user_id)

RECURSIVE InsertByDate(_, _)
\* puts row into a list sorted by date, newest first, behind its equals
InsertByDate(sorted, row) ==
    IF sorted = <<>> THEN <<row>>
    ELSE IF Head(sorted).date >= row.date
         THEN <<Head(sorted)>> \o InsertByDate(Tail(sorted), row)
         ELSE <<row>> \o sorted

RECURSIVE SortByDateDesc(_)
\* line 103: sort_values("日付", ascending=False), as a stable sort
SortByDateDesc(rows) ==
    IF rows = <<>> THEN <<>>
    ELSE InsertByDate(SortByDateDesc(SubSeq(rows, 1, Len(rows) - 1)), rows[Len(rows)])

\* line 104: drop(columns=["源氏名"])
DropName(row) ==
    [date |-> row.date, usd |-> row.usd, rate |-> row.rate,
     before_tax |-> row.before_tax, tax |-> row.tax, after_tax |-> row.after_tax]

\* lines 89-105, when get_all_records returns: the user's rows, newest first,
\* without the name column (a sheet with no rows has no columns: empty frame)
load_records(sh, user_id) ==
    LET sorted == SortByDateDesc(SelectRows(sh, user_id))
    IN  [i \in 1..Len(sorted) |-> DropName(sorted[i])]

\* variant: the first row's value instead of the greatest
first_salary(df) == df[1].after_tax

\* line 122: df["税引後お給料"].max(), df not empty
max_salary(df) ==
    CHOOSE m \in {df[i].after_tax : i \in 1..Len(df)} :
        \A i \in 1..Len(df) : df[i].after_tax <= m

\* ------------------------------------------------------------ the script
\* variant: the password is not compared
LoginOkIdOnly(credentials_dict, user_id, user_pass) ==
    user_id \in DOMAIN credentials_dict

\* line 236: the entered pair is an entry of the credential mapping
LoginOk(credentials_dict, user_id, user_pass) ==
    /\ user_id \in DOMAIN credentials_dict
    /\ credentials_dict[user_id] = user_pass

\* variant: only a negative rate ends the run
RateGateNegative(rate) == rate.n < 0

\* line 243: rate == 0 ends the run
RateGate(rate) == rate = Zero

\* variant: the history is loaded in every run
HistoryGateOpen(saved) == TRUE

\* line 279: the history is loaded only under the saved flag
HistoryGate(saved) == saved

\* a run that ends before the USD field: no button, no calculation, no history
Aborted(s, w, pressed, login, fetched, msgs) ==
    /\ run' = [run EXCEPT ![s] =
                  [NoRun EXCEPT !.pressed = pressed, !.login = login,
                                !.fetched = fetched, !.msgs = msgs]]
    /\ widgets' = [widgets EXCEPT ![s] =
                      [w EXCEPT !.usd_input = <<>>, !.button = FALSE]]
    /\ pc' = [pc EXCEPT ![s] = "idle"]

\* lines 290-291
LoginError(w) == IF w.user_id # "" /\ w.user_pass # "" THEN {"login_error"} ELSE {}

\* lines 227-279 of one script run of session s with the widget values w:
\* login, connect, rate, parse, calculate; pressed: the run was started by
\* the Save button.  The run goes on to save_to_sheet, to load_records or ends.
\* in: the rates a fetch can return.
Script(s, w, pressed, in) ==
    \/ \* lines 41-43: st.secrets cannot be read, credentials = {}
       Aborted(s, w, pressed, LoginOk(EmptyDict, w.user_id, w.user_pass), FALSE,
               {"credentials_error"} \cup LoginError(w))
    \/ \* lines 289-291: the pair is no entry
       /\ ~LoginOk(Credentials, w.user_id, w.user_pass)
       /\ Aborted(s, w, pressed, FALSE, FALSE, LoginError(w))
    \/ \* lines 239-240: connect_to_sheet returns None
       /\ LoginOk(Credentials, w.user_id, w.user_pass)
       /\ Aborted(s, w, pressed, TRUE, FALSE, {"connect_error"})
    \/ \* lines 242-279
       /\ LoginOk(Credentials, w.user_id, w.user_pass)
       /\ \E rate \in in.rates \cup {Zero} :
            IF RateGate(rate)
            THEN Aborted(s, w, pressed, TRUE, TRUE, {"rate_error"})
            ELSE LET usd == ParseUsd(w.usd_input)
                 IN  /\ run' = [run EXCEPT ![s] =
                            [NoRun EXCEPT !.pressed = pressed, !.login = TRUE,
                                !.fetched = TRUE, !.rate = rate, !.usd = usd,
                                !.reward = calculate_rewards(usd, rate),
                                !.calc = TRUE]]
                     /\ widgets' = [widgets EXCEPT ![s] = [w EXCEPT !.button = TRUE]]
                     /\ pc' = [pc EXCEPT ![s] =
                            IF pressed THEN "save"
                            ELSE IF HistoryGate(session_state[s].saved) THEN "load"
                            ELSE "idle"]

\* rows the sheet will hold once every save_to_sheet under way has returned
Pending == Len(sheet) + Cardinality({s \in Sessions : pc[s] = "save"})

\* ---------------------------------------------------------- user events
\* line 233: the user changes the ID field
EditId(s, in) ==
    /\ pc[s] = "idle"
    /\ \E v \in in.ids \ {widgets[s].user_id} :
           Script(s, [widgets[s] EXCEPT !.user_id = v], FALSE, in)
    /\ UNCHANGED <<sheet, now, session_state, appends>>

\* line 234: the user changes the password field
EditPass(s, in) ==
    /\ pc[s] = "idle"
    /\ \E v \in in.passes \ {widgets[s].user_pass} :
           Script(s, [widgets[s] EXCEPT !.user_pass = v], FALSE, in)
    /\ UNCHANGED <<sheet, now, session_state, appends>>

\* line 247: the user changes the USD field (shown by the previous run)
EditUsd(s, in) ==
    /\ pc[s] = "idle"
    /\ widgets[s].button
    /\ \E t \in in.usds \ {widgets[s].usd_input} :
           Script(s, [widgets[s] EXCEPT !.usd_input = t], FALSE, in)
    /\ UNCHANGED <<sheet, now, session_state, appends>>

\* line 274: the user presses the Save button (shown by the previous run)
PressSave(s, in) ==
    /\ pc[s] = "idle"
    /\ widgets[s].button
    /\ Pending < in.rows
    /\ Script(s, widgets[s], TRUE, in)
    /\ UNCHANGED <<sheet, now, session_state, appends>>

\* line 218: the user changes the simulator's number (shown by the previous run)
EditSimulator(s, in) ==
    /\ pc[s] = "idle"
    /\ run[s].rendered
    /\ Script(s, widgets[s], FALSE, in)
    /\ UNCHANGED <<sheet, now, session_state, appends>>

\* ------------------------------------------------------- the sheet calls
\* lines 275-279 and 80-87: save_to_sheet, then session_state.saved = True
SaveToSheet(s) ==
    /\ pc[s] = "save"
    /\ \E returned \in BOOLEAN, stored_rate \in RoundOutcomes(run[s].rate) :
        LET row == new_row(now, widgets[s].user_id, run[s].usd, stored_rate,
                           run[s].reward)
        IN  /\ sheet' = IF returned THEN append_row(sheet, row) ELSE sheet
            /\ appends' = IF returned THEN appends + 1 ELSE appends
            /\ run' = [run EXCEPT ![s].appended = returned,
                           ![s].new_row = IF returned THEN row ELSE NoRow,
                           ![s].msgs = @ \cup {IF returned THEN "save_success"
                                                            ELSE "save_error"}]
    /\ session_state' = [session_state EXCEPT ![s] = SetSaved(@)]
    /\ pc' = [pc EXCEPT ![s] =
                 IF HistoryGate(session_state'[s].saved) THEN "load" ELSE "idle"]
    /\ UNCHANGED <<now, widgets>>

\* lines 279-288 and 89-123: load_records, then the history when df is not empty
LoadRecords(s) ==
    /\ pc[s] = "load"
    /\ \E returned \in BOOLEAN :
        LET df == IF returned THEN load_records(sheet, widgets[s].user_id) ELSE <<>>
        IN  run' = [run EXCEPT
                ![s].loaded = TRUE,
                ![s].read = returned,
                ![s].readLen = IF returned THEN Len(sheet) ELSE 0,
                ![s].df = df,
                ![s].rendered = (df # <<>>),
                ![s].max_salary = IF df # <<>> THEN max_salary(df) ELSE 0,
                ![s].msgs = @ \cup (IF ~returned \/ sheet = <<>> THEN {"load_error"} ELSE {})
                              \cup (IF df = <<>> THEN {"no_records"} ELSE {})]
    /\ pc' = [pc EXCEPT ![s] = "idle"]
    /\ UNCHANGED <<sheet, now, session_state, widgets, appends>>

\* the wall clock moves on
Tick ==
    /\ now < MaxTime
    /\ now' = now + 1
    /\ UNCHANGED <<sheet, session_state, widgets, pc, run, appends>>

\* one browser, one user, every input, the clock moving
Solo ==
    [sessions |-> {"s1"}, ids |-> {"aya", "zed"}, passes |-> {"p1", "p2"},
     usds |-> UsdTexts, rates |-> FetchedRates, rows |-> MaxRows]

\* two browsers of one user, saving within the same second
Duo ==
    [sessions |-> Sessions, ids |-> {"aya"}, passes |-> {"p1", "p2"},
     usds |-> {<<"1", "5">>}, rates |-> {[n |-> 104, d |-> 100]}, rows |-> MaxRows]

\* one browser, two users in turn, a longer history
Turns ==
    [sessions |-> {"s1"}, ids |-> {"aya", "mio"}, passes |-> {"p1", "p2"},
     usds |-> {<<"1", "5">>}, rates |-> FetchedRates, rows |-> MaxHistory]

Next(in) ==
    \/ \E s \in in.sessions : EditId(s, in)
    \/ \E s \in in.sessions : EditPass(s, in)
    \/ \E s \in in.sessions : EditUsd(s, in)
    \/ \E s \in in.sessions : PressSave(s, in)
    \/ \E s \in in.sessions : EditSimulator(s, in)
    \/ \E s \in in.sessions : SaveToSheet(s)
    \/ \E s \in in.sessions : LoadRecords(s)

NextSolo == Next(Solo) \/ Tick
NextDuo == Next(Duo)
NextTurns == Next(Turns)

SpecSolo == Init /\ [][NextSolo]_vars
SpecDuo == Init /\ [][NextDuo]_vars
SpecTurns == Init /\ [][NextTurns]_vars

\* ------------------------------------------------------------- properties
\* k is the ceiling of n/d (d > 0): the least integer not below n/d
IsCeil(k, n, d) == (k - 1) * d < n /\ n <= k * d

\* the unrounded reward usd * rate * reward_rate as the fraction RawNum / RawDen
RawNum(usd, rate) == usd.n * rate.n * RewardRateNum
RawDen(usd, rate) == usd.d * rate.d * RewardRateDen

\* how often row occurs in the first len rows of sh
Count(sh, len, row) == Cardinality({i \in 1..len : sh[i] = row})

\* indices of user_id's rows among the first len rows of sh
RowsOf(sh, len, user_id) == {i \in 1..len : sh[i].name = user_id}

\* C1 as stated: for usd >= 0 and rate > 0 the returned tax and after_tax are
\* the ceilings of the rounded-up integer before_tax times 0.1021 and times
\* (1 - 0.1021).
C1_RoundedBase ==
    \A s \in Sessions :
        (run[s].calc /\ run[s].usd.n >= 0) =>
            LET r == run[s].reward
            IN  /\ IsCeil(r.before_tax, RawNum(run[s].usd, run[s].rate),
                          RawDen(run[s].usd, run[s].rate))
                /\ IsCeil(r.tax, r.before_tax * TaxRateNum, TaxRateDen)
                /\ IsCeil(r.after_tax, r.before_tax * (TaxRateDen - TaxRateNum),
                          TaxRateDen)

\* C1 amended: for usd >= 0 and rate > 0, before_tax = ceil(usd * rate * 0.6),
\* tax = ceil(usd * rate * 0.6 * 0.1021) and
\* after_tax = ceil(usd * rate * 0.6 * (1 - 0.1021)): each is the ceiling of
\* the unrounded product, not of the rounded before_tax.
C1_UnroundedBase ==
    \A s \in Sessions :
        (run[s].calc /\ run[s].usd.n >= 0) =>
            LET r  == run[s].reward
                bn == RawNum(run[s].usd, run[s].rate)
                bd == RawDen(run[s].usd, run[s].rate)
            IN  /\ IsCeil(r.before_tax, bn, bd)
                /\ IsCeil(r.tax, bn * TaxRateNum, bd * TaxRateDen)
                /\ IsCeil(r.after_tax, bn * (TaxRateDen - TaxRateNum), bd * TaxRateDen)

\* a calculation whose tax differs from the ceiling of rounded before_tax * 0.1021
C1_Witness ==
    \E s \in Sessions :
        /\ run[s].calc /\ run[s].usd.n > 0
        /\ ~IsCeil(run[s].reward.tax, run[s].reward.before_tax * TaxRateNum, TaxRateDen)

\* C2: a run whose fetched rate is 0 ends there: no calculation, no row
\* appended, nothing loaded or rendered, whatever the saved flag and the
\* inputs (the Save button included).
C2_ZeroRateAborts ==
    \A s \in Sessions :
        (run[s].fetched /\ run[s].rate = Zero) =>
            /\ pc[s] = "idle"
            /\ ~run[s].calc
            /\ ~run[s].appended
            /\ ~run[s].loaded
            /\ ~run[s].rendered
            /\ run[s].df = <<>>
            /\ "rate_error" \in run[s].msgs

\* a Save press in a session already Saved, with the rate fetch failing
C2_Witness ==
    \E s \in Sessions :
        /\ run[s].fetched /\ run[s].rate = Zero
        /\ run[s].pressed
        /\ session_state[s].saved
        /\ sheet # <<>>

\* C3: the sheet changes only by one row being put after the last one, in the
\* save step of a run that the Save button started and that has calculated;
\* every earlier row keeps its place and its seven fields.
C3_AppendOnly ==
    [][ sheet' # sheet =>
          /\ Len(sheet') = Len(sheet) + 1
          /\ \A i \in 1..Len(sheet) : sheet'[i] = sheet[i]
          /\ \E s \in Sessions :
                /\ pc[s] = "save" /\ pc'[s] # "save"
                /\ run[s].pressed /\ run[s].calc
                /\ DOMAIN sheet'[Len(sheet')] =
                     {"date", "name", "usd", "rate", "before_tax", "tax", "after_tax"}
      ]_vars

\* two rows that differ are in the sheet
C3_Witness == Len(sheet) >= 2 /\ sheet[1] # sheet[2]

\* C4 as stated: every stored row's before_tax is the ceiling of its stored
\* usd times its stored (rounded) rate times 0.6.
C4_StoredFieldsConsistent ==
    \A i \in 1..Len(sheet) :
        IsCeil(sheet[i].before_tax, RawNum(sheet[i].usd, sheet[i].rate),
               RawDen(sheet[i].usd, sheet[i].rate))

\* C4 amended: every stored row's before_tax is the ceiling of its stored usd
\* times 0.6 times the rate as fetched, of which the stored rate is the
\* rounding to one decimal; it need not be reproducible from the stored rate.
C4_FetchedRateConsistent ==
    \A i \in 1..Len(sheet) :
        \E rate \in FetchedRates :
            /\ sheet[i].rate \in RoundOutcomes(rate)
            /\ IsCeil(sheet[i].before_tax, RawNum(sheet[i].usd, rate),
                      RawDen(sheet[i].usd, rate))

\* a stored row whose before_tax the stored rate does not reproduce
C4_Witness ==
    \E i \in 1..Len(sheet) :
        /\ sheet[i].usd.n > 0
        /\ ~IsCeil(sheet[i].before_tax, RawNum(sheet[i].usd, sheet[i].rate),
                   RawDen(sheet[i].usd, sheet[i].rate))

\* C5: every stored row has usd >= 0, before_tax >= 0 and tax >= 0, whatever
\* was typed into the USD field, and a text that is no number is stored as 0.
C5_StoredNonNegative ==
    /\ \A i \in 1..Len(sheet) :
          /\ sheet[i].usd.n >= 0
          /\ sheet[i].before_tax >= 0
          /\ sheet[i].tax >= 0
    /\ \A s \in Sessions :
          (run[s].appended /\ ~ParseFloat(widgets[s].usd_input).ok) =>
              run[s].new_row.usd = Zero

\* C6: the saved flag starts False; it changes only from False to True, in
\* the save step of a run the Save button started; once True it stays True;
\* load_records and the history happen only in a run under a True flag.
C6_SavedFlag ==
    /\ \A s \in Sessions : ~session_state[s].saved
    /\ [][ \A s \in Sessions :
              /\ session_state[s].saved => session_state'[s].saved
              /\ session_state'[s] # session_state[s] =>
                    /\ pc[s] = "save" /\ run[s].pressed
                    /\ session_state'[s].saved
          ]_vars
    /\ [](\A s \in Sessions :
             (run[s].loaded \/ run[s].rendered \/ pc[s] = "load") =>
                 session_state[s].saved)

\* a later run of a Saved session, without the Save button, renders the
\* history, while the other session has calculated and is still NotSaved
C6_Witness ==
    \E s \in Sessions :
        /\ session_state[s].saved
        /\ run[s].rendered /\ ~run[s].pressed
        /\ \E t \in Sessions \ {s} : ~session_state[t].saved /\ run[t].calc

\* C7: whatever the interleaving of the sessions, the sheet holds one row per
\* append_row call that returned (none lost, none overwritten): each
\* session's appended row is there as often as sessions appended that row;
\* and a load_records whose read returned gives exactly the user's rows the
\* sheet held then, so a read after both appends gives both rows.
C7_BothAppendsKept ==
    /\ Len(sheet) = appends
    /\ \A s \in Sessions :
          run[s].appended =>
              Count(sheet, Len(sheet), run[s].new_row) >=
                  Cardinality({t \in Sessions :
                      run[t].appended /\ run[t].new_row = run[s].new_row})
    /\ \A s \in Sessions :
          run[s].read =>
              /\ run[s].readLen <= Len(sheet)
              /\ Len(run[s].df) =
                    Cardinality(RowsOf(sheet, run[s].readLen, widgets[s].user_id))
              /\ \A i \in RowsOf(sheet, run[s].readLen, widgets[s].user_id) :
                    Cardinality({j \in 1..Len(run[s].df) :
                                    run[s].df[j] = DropName(sheet[i])}) =
                    Count(sheet, run[s].readLen, sheet[i])

\* two sessions of one user have both appended, and one of them has then read
\* both rows
C7_Witness ==
    \E s \in Sessions : \E t \in Sessions \ {s} :
        /\ widgets[s].user_id = widgets[t].user_id
        /\ run[s].appended /\ run[t].appended
        /\ run[s].new_row # run[t].new_row
        /\ run[s].read /\ run[s].readLen = 2
        /\ \E i, j \in 1..Len(run[s].df) :
              /\ run[s].df[i] = DropName(run[s].new_row)
              /\ run[s].df[j] = DropName(run[t].new_row)

\* the greatest after_tax among user_id's rows in the first len rows of sh is m
IsMaxOf(m, sh, len, user_id) ==
    /\ \E i \in RowsOf(sh, len, user_id) : sh[i].after_tax = m
    /\ \A i \in RowsOf(sh, len, user_id) : sh[i].after_tax <= m

\* C8: a row is appended only by a session whose entered pair is an entry of
\* the credential mapping, with that id as the row's name; a run in which the
\* mapping could not be read gets no further than the login.
C8_AuthenticatedRows ==
    /\ [][ sheet' # sheet =>
              \E s \in Sessions :
                  /\ pc[s] = "save"
                  /\ widgets[s].user_id \in DOMAIN Credentials
                  /\ Credentials[widgets[s].user_id] = widgets[s].user_pass
                  /\ sheet'[Len(sheet')].name = widgets[s].user_id
          ]_vars
    /\ [](\A s \in Sessions :
             "credentials_error" \in run[s].msgs =>
                 /\ ~run[s].login /\ ~run[s].fetched /\ ~run[s].calc
                 /\ ~run[s].appended /\ pc[s] = "idle" /\ ~widgets[s].button)

\* with a valid pair entered and rows in the sheet, a run finds the mapping
\* unreadable
C8_Witness ==
    \E s \in Sessions :
        /\ "credentials_error" \in run[s].msgs
        /\ widgets[s].user_id = "aya" /\ widgets[s].user_pass = "p1"
        /\ \E i \in 1..Len(sheet) : sheet[i].name = "aya"

\* C9: the maximum shown is the greatest after_tax among the user's rows the
\* sheet held when it was read, and no step lowers the greatest after_tax of
\* any user's rows.
C9_HistoricalMaximum ==
    /\ [](\A s \in Sessions :
             run[s].rendered =>
                 IsMaxOf(run[s].max_salary, sheet, run[s].readLen, widgets[s].user_id))
    /\ [][ \A u \in DOMAIN Credentials :
              \A i \in RowsOf(sheet, Len(sheet), u) :
                  \E j \in RowsOf(sheet', Len(sheet'), u) :
                      sheet'[j].after_tax >= sheet[i].after_tax
          ]_vars

\* the history is rendered after a row with a smaller after_tax was appended
\* behind the user's greatest one, and another user's row is in the sheet
C9_Witness ==
    \E s \in Sessions :
        /\ run[s].rendered
        /\ \E i, j \in RowsOf(sheet, run[s].readLen, widgets[s].user_id) :
              i < j /\ sheet[j].after_tax < sheet[i].after_tax
        /\ \E k \in 1..run[s].readLen : sheet[k].name # widgets[s].user_id

\* a run the Save button started in which append_row raised, at its end
SaveFailed(s) ==
    run[s].pressed /\ run[s].calc /\ ~run[s].appended /\ pc[s] = "idle"

\* C10 as stated: when append_row fails the history is loaded and rendered in
\* that same run.
C10_FailedSaveRenders ==
    \A s \in Sessions :
        SaveFailed(s) => run[s].loaded /\ run[s].rendered

\* C10 amended: when append_row fails the sheet is unchanged, the failure is
\* reported, nothing is retried, the saved flag is set, and load_records is
\* called in that same run; the history is rendered exactly when the read
\* returns at least one row of the user.
C10_FailedSaveLoads ==
    /\ [][ \A s \in Sessions :
              (pc[s] = "save" /\ pc'[s] # "save" /\ ~run'[s].appended) =>
                  /\ sheet' = sheet
                  /\ "save_error" \in run'[s].msgs
                  /\ session_state'[s].saved
                  /\ pc'[s] = "load"
          ]_vars
    /\ [][ \A s \in Sessions :
              (pc[s] = "load" /\ pc'[s] # "load") => sheet' = sheet /\ pc'[s] = "idle"
          ]_vars
    /\ [](\A s \in Sessions :
             SaveFailed(s) =>
                 /\ session_state[s].saved
                 /\ run[s].loaded
                 /\ "save_error" \in run[s].msgs
                 /\ run[s].rendered <=>
                       (run[s].read /\
                        RowsOf(sheet, run[s].readLen, widgets[s].user_id) # {}))

\* append_row failed in this run and the history is rendered all the same,
\* from a row an earlier run stored
C10_Witness ==
    \E s \in Sessions : SaveFailed(s) /\ run[s].rendered

====
